---- MODULE Spec2Model ----
(***************************************************************************)
(* A model of blackmagic_design/Resolve.py: the Resolve connection object   *)
(* with its constructor, its process lifecycle methods (open, kill) and     *)
(* open_page, and the pass-through wrappers MediaStorage and                *)
(* ProjectManager.                                                          *)
(*                                                                          *)
(* The operating system (the file system, the set of running processes,    *)
(* the commands tasklist and taskkill) and the vendor scripting objects are *)
(* the environment: every outcome they can produce is a nondeterministic    *)
(* choice.  Text that the code searches (the stdout of tasklist and         *)
(* taskkill, page names) is a sequence of characters, so that Python's      *)
(* substring test `in` and str.lower() are computed, not assumed.           *)
(***************************************************************************)
EXTENDS Integers, Sequences, FiniteSets, TLC

\* Number of Resolve instances the calling program holds.
MaxCallers == 2

Callers == 1..MaxCallers

(***************************************************************************)
(* Text                                                                     *)
(***************************************************************************)

\* 'Resolve.exe', the needle of open's two checks and the image taskkill names.
ResolveExe == <<"R","e","s","o","l","v","e",".","e","x","e">>

\* 'SUCCESS', the needle of kill's check.
SuccessWord == <<"S","U","C","C","E","S","S">>

\* Another program whose image name contains 'Resolve.exe'.
LookalikeExe == <<"M","y">> \o ResolveExe

\* A program that has nothing to do with Resolve.
ExplorerExe == <<"e","x","p","l","o","r","e","r",".","e","x","e">>

\* The image names a process of the machine can have.
Images == {ResolveExe, LookalikeExe, ExplorerExe}

\* Python's `needle in hay` on str: hay has a slice equal to needle.
In(needle, hay) ==
    \E i \in 1..(Len(hay) - Len(needle) + 1) :
        SubSeq(hay, i, i + Len(needle) - 1) = needle

\* 'Resolve.exe' appears in the task list when the processes ps are running:
\* some row's image name contains it.
Listed(ps) == \E p \in ps : In(ResolveExe, p)

\* The rows of tasklist's table, one per process: the image name and the
\* rest of the row.
RECURSIVE TasklistRows(_)
TasklistRows(ps) ==
    IF ps = {} THEN <<>>
    ELSE LET p == CHOOSE q \in ps : TRUE
         IN  p \o <<" ", "1", " ", "K", "\n">> \o TasklistRows(ps \ {p})

\* stdout of the command `tasklist` when the processes ps are running.
TasklistStdout(ps) ==
    <<"I","m","a","g","e"," ","N","a","m","e","\n">> \o TasklistRows(ps)

\* stdout of `taskkill /IM Resolve.exe /F`: one SUCCESS line when a process of
\* that image was terminated, nothing otherwise (errors go to stderr).
TaskkillStdout(terminated) ==
    IF terminated
    THEN SuccessWord \o <<":", " ">> \o ResolveExe \o <<"\n">>
    ELSE <<>>

(***************************************************************************)
(* Inputs and environment outcomes                                          *)
(***************************************************************************)

\* The default executable_path of open.
DefaultPath == "C:/Program Files/Blackmagic Design/DaVinci Resolve/Resolve.exe"

\* The executable_path of test_initialize_wrong_executable_path.
WrongPath == "D:/wrong/path/Resolve.exe"

Paths == {DefaultPath, WrongPath}

\* Values of the gui argument: the two the code knows and one it does not.
GuiValues == {"-gui", "-nogui", "gui"}

\* Values of wait_time: the default, and a negative one (time.sleep raises).
WaitTimes == {15, -1}

\* str(e) of the exceptions subprocess.run and subprocess.Popen can raise.
OsErrors == {"[WinError 2] The system cannot find the file specified",
             "[WinError 5] Access is denied"}

\* str(e) of time.sleep's ValueError.
SleepError == "sleep length must be non-negative"

\* None
PyNone == "None"

\* The value of result while a call is in progress, or before any call.
NoResult == "<no result>"

VARIABLES
    procs,            \* image names of the running processes
    fs,               \* the paths that exist in the file system
    app,              \* app[c]: the field self.app of c's instance
    media_storage,    \* media_storage[c]: the field self.media_storage
    project_manager,  \* project_manager[c]: the field self.project_manager
    pc,               \* pc[c]: where c's call in progress stands, or "idle"
    frame,            \* frame[c]: the arguments and locals of c's call
    steps,            \* steps[c]: the system calls c's call has made, in order
    result,           \* result[c]: what c's call returned
    page,             \* the page the application shows (vendor state)
    wcall             \* the last call of open_page or of a wrapper method

\* frame, steps and result describe a call in progress, and the call that
\* returned last until the next call starts.

vars == <<procs, fs, app, media_storage, project_manager,
          pc, frame, steps, result, page, wcall>>

\* What open and kill work with.
life == <<pc, frame, steps, result>>

inst == <<app, media_storage, project_manager>>

(***************************************************************************)
(* Resolve.open                                                             *)
(***************************************************************************)

NotFoundMsg(executable_path) ==
    "Error: Resolve executable not found at '" \o executable_path
        \o "'. Please check the path and try again."

AlreadyRunningMsg == "DaVinci Resolve is already running."

OpenedMsg == "DaVinci Resolve opened successfully."

FailedDetectMsg ==
    "Error: Failed to detect Resolve in the task list. Please verify if the application has started."

\* A variant of FailedOpenMsg that drops the exception's text.
FailedOpenMsg_NoText(e) == "Error: Failed to open DaVinci Resolve - "

FailedOpenMsg(e) == "Error: Failed to open DaVinci Resolve - " \o e

\* The frame of a caller that has no call to describe.  held is self.app as
\* the call found it, stdout the output of the call's last command.
NoFrame ==
    [method |-> "", executable_path |-> "", wait_time |-> 0, gui |-> "",
     command |-> "", found1 |-> FALSE, found2 |-> FALSE, raised |-> FALSE,
     stopped |-> FALSE, disturbed |-> FALSE, held |-> "None", stdout |-> <<>>]

\* c starts a call: its own record is fr, and the records of the calls that
\* have returned are dropped.
Enter(c, fr, first) ==
    /\ frame' = [d \in Callers |->
                    IF d = c THEN fr
                    ELSE IF pc[d] = "idle" THEN NoFrame ELSE frame[d]]
    /\ steps' = [d \in Callers |->
                    IF d = c THEN first
                    ELSE IF pc[d] = "idle" THEN <<>> ELSE steps[d]]

\* The results once c has started a call that is to end with msg (NoResult
\* while it runs).
Results(c, msg) ==
    [d \in Callers |->
        IF d = c THEN msg
        ELSE IF pc[d] = "idle" THEN NoResult ELSE result[d]]

\* The frames once somebody other than c has started or stopped a program
\* that the task list shows as 'Resolve.exe': the calls on record have not
\* run, or been left, undisturbed.
Disturb(c, fr) ==
    [d \in Callers |->
        IF d # c /\ fr[d].method # ""
        THEN [fr[d] EXCEPT !.disturbed = TRUE]
        ELSE fr[d]]

\* c's call returns msg.
Return(c, msg) ==
    /\ result' = [result EXCEPT ![c] = msg]
    /\ pc' = [pc EXCEPT ![c] = "idle"]

\* A variant of Exists that takes every path to exist.
Exists_Always(executable_path) == TRUE

\* os.path.exists(executable_path)
Exists(executable_path) == executable_path \in fs

\* A variant of AlreadyRunning that looks for 'resolve.exe'.
AlreadyRunning_WrongCase(stdout) ==
    In(<<"r","e","s","o","l","v","e",".","e","x","e">>, stdout)

\* The test of the first check: 'Resolve.exe' in result.stdout
AlreadyRunning(stdout) == In(ResolveExe, stdout)

\* A variant of Detected that compares the whole output with 'Resolve.exe'.
Detected_Equal(stdout) == stdout = ResolveExe

\* The test of the second check: 'Resolve.exe' in result.stdout
Detected(stdout) == In(ResolveExe, stdout)

\* The command line open gives to subprocess.Popen, "" when it gives none.
LaunchCommand(executable_path, gui) ==
    IF gui = "-gui" THEN executable_path
    ELSE IF gui = "-nogui" THEN executable_path \o " -nogui"
    ELSE ""

\* open(executable_path, wait_time, gui), up to the path check.
OpenCall(c, executable_path, wait_time, gui) ==
    /\ pc[c] = "idle"
    /\ Enter(c, [NoFrame EXCEPT !.method = "open",
                                !.executable_path = executable_path,
                                !.wait_time = wait_time,
                                !.gui = gui,
                                !.stopped = ~Listed(procs),
                                !.held = app[c]],
             <<"exists">>)
    /\ IF ~Exists(executable_path)
       THEN /\ result' = Results(c, NotFoundMsg(executable_path))
            /\ pc' = pc
       ELSE /\ result' = Results(c, NoResult)
            /\ pc' = [pc EXCEPT ![c] = "open_tasklist1"]
    /\ UNCHANGED <<procs, fs, inst, page, wcall>>

\* The first subprocess.run(['tasklist']) and the test of its stdout.
OpenTasklist1(c) ==
    /\ pc[c] = "open_tasklist1"
    /\ steps' = [steps EXCEPT ![c] = Append(@, "tasklist")]
    /\ \/ \E e \in OsErrors :
            /\ frame' = [frame EXCEPT ![c].raised = TRUE]
            /\ Return(c, FailedOpenMsg(e))
       \/ LET stdout == TasklistStdout(procs)
          IN  IF AlreadyRunning(stdout)
              THEN /\ frame' = [frame EXCEPT ![c].found1 = TRUE]
                   /\ Return(c, AlreadyRunningMsg)
              ELSE /\ frame' = frame
                   /\ pc' = [pc EXCEPT ![c] = "open_launch"]
                   /\ result' = result
    /\ UNCHANGED <<procs, fs, inst, page, wcall>>

\* The if/elif on gui with its subprocess.Popen.
OpenLaunch(c) ==
    /\ pc[c] = "open_launch"
    /\ LET cmd == LaunchCommand(frame[c].executable_path, frame[c].gui)
       IN  IF cmd = ""
           THEN /\ pc' = [pc EXCEPT ![c] = "open_sleep"]
                /\ UNCHANGED <<procs, frame, steps, result>>
           ELSE /\ steps' = [steps EXCEPT ![c] = Append(@, "Popen")]
                /\ \/ \E e \in OsErrors :
                        /\ frame' = [frame EXCEPT ![c].raised = TRUE,
                                                  ![c].command = cmd]
                        /\ Return(c, FailedOpenMsg(e))
                        /\ procs' = procs
                   \/ /\ procs' = procs \cup {ResolveExe}
                      /\ frame' = Disturb(c, [frame EXCEPT ![c].command = cmd])
                      /\ pc' = [pc EXCEPT ![c] = "open_sleep"]
                      /\ result' = result
    /\ UNCHANGED <<fs, inst, page, wcall>>

\* A variant of OpenSleep that goes back to the first check after the wait.
OpenSleep_Retry(c) ==
    /\ pc[c] = "open_sleep"
    /\ steps' = [steps EXCEPT ![c] = Append(@, "sleep")]
    /\ pc' = [pc EXCEPT ![c] = "open_tasklist1"]
    /\ UNCHANGED <<procs, fs, inst, page, wcall, frame, result>>

\* time.sleep(wait_time)
OpenSleep(c) ==
    /\ pc[c] = "open_sleep"
    /\ steps' = [steps EXCEPT ![c] = Append(@, "sleep")]
    /\ IF frame[c].wait_time < 0
       THEN /\ frame' = [frame EXCEPT ![c].raised = TRUE]
            /\ Return(c, FailedOpenMsg(SleepError))
       ELSE /\ frame' = frame
            /\ pc' = [pc EXCEPT ![c] = "open_tasklist2"]
            /\ result' = result
    /\ UNCHANGED <<procs, fs, inst, page, wcall>>

\* The second subprocess.run(['tasklist']) and the test of its stdout.
OpenTasklist2(c) ==
    /\ pc[c] = "open_tasklist2"
    /\ steps' = [steps EXCEPT ![c] = Append(@, "tasklist")]
    /\ \/ \E e \in OsErrors :
            /\ frame' = [frame EXCEPT ![c].raised = TRUE]
            /\ Return(c, FailedOpenMsg(e))
       \/ LET stdout == TasklistStdout(procs)
          IN  IF Detected(stdout)
              THEN /\ frame' = [frame EXCEPT ![c].found2 = TRUE]
                   /\ Return(c, OpenedMsg)
              ELSE /\ frame' = frame
                   /\ Return(c, FailedDetectMsg)
    /\ UNCHANGED <<procs, fs, inst, page, wcall>>

(***************************************************************************)
(* Resolve.kill                                                             *)
(***************************************************************************)

KilledMsg == "DaVinci Resolve has been forcefully terminated."

FailedTerminateMsg ==
    "Failed to terminate DaVinci Resolve. Process may not be running."

FailedKillMsg(e) == "Failed to kill DaVinci Resolve: " \o e

\* A variant of Terminated that does not look at the output.
Terminated_Always(stdout) == TRUE

\* The test of kill: 'SUCCESS' in result.stdout
Terminated(stdout) == In(SuccessWord, stdout)

\* kill(): subprocess.run(['taskkill', '/IM', 'Resolve.exe', '/F']) and the
\* test of its stdout.  taskkill terminates the processes of that exact image
\* name, or fails to (access denied).
Kill(c) ==
    /\ pc[c] = "idle"
    /\ pc' = pc
    /\ steps' = [d \in Callers |->
                    IF d = c THEN <<"taskkill">>
                    ELSE IF pc[d] = "idle" THEN <<>> ELSE steps[d]]
    /\ \/ \E e \in OsErrors :
            /\ frame' = [d \in Callers |->
                            IF d = c THEN [NoFrame EXCEPT !.method = "kill",
                                                          !.raised = TRUE,
                                                          !.held = app[c]]
                            ELSE IF pc[d] = "idle" THEN NoFrame ELSE frame[d]]
            /\ result' = Results(c, FailedKillMsg(e))
            /\ procs' = procs
       \/ \E terminated \in {t \in BOOLEAN : t => ResolveExe \in procs} :
            LET stdout == TaskkillStdout(terminated)
            IN  /\ procs' = IF terminated THEN procs \ {ResolveExe} ELSE procs
                /\ frame' = [d \in Callers |->
                                IF d = c
                                THEN [NoFrame EXCEPT
                                        !.method = "kill",
                                        !.stopped = ~Listed(procs),
                                        !.held = app[c],
                                        !.stdout = stdout]
                                ELSE IF pc[d] = "idle" THEN NoFrame
                                ELSE IF terminated
                                     THEN [frame[d] EXCEPT !.disturbed = TRUE]
                                     ELSE frame[d]]
                /\ result' = Results(c, IF Terminated(stdout)
                                        THEN KilledMsg
                                        ELSE FailedTerminateMsg)
    /\ UNCHANGED <<fs, inst, page, wcall>>

(***************************************************************************)
(* Resolve.quit                                                             *)
(***************************************************************************)

ClosedMsg == "DaVinci Resolve has been closed successfully."

DidNotCloseMsg ==
    "DaVinci Resolve did not close. Please use the kill function to terminate it manually."

NotInitializedMsg == "Resolve application is not initialized. Cannot quit."

FailedQuitMsg(e) == "Failed to quit DaVinci Resolve: " \o e

\* str(e) of the exception the vendor's Quit() raises when it fails.
QuitError == "Quit failed"

\* What the vendor's Quit() can do: return, raise an AttributeError, or raise
\* another exception.
QuitOutcomes == {"return", "AttributeError", "Exception"}

\* A variant of Closed that looks for 'Resolve.exe' in the output.
Closed_Inverted(stdout) == In(ResolveExe, stdout)

\* The test of quit's check: 'Resolve.exe' not in result.stdout
Closed(stdout) == ~In(ResolveExe, stdout)

\* quit(), up to self.app.Quit().  With self.app None the attribute lookup
\* raises AttributeError and no call is made.  Otherwise the vendor's Quit()
\* is called: whatever comes of it, the application may have exited by the
\* time it is back, or may still be running.
Quit(c) ==
    /\ pc[c] = "idle"
    /\ LET fr == [NoFrame EXCEPT !.method = "quit",
                                 !.held = app[c],
                                 !.stopped = ~Listed(procs)]
       IN  IF app[c] = PyNone
           THEN /\ Enter(c, [fr EXCEPT !.raised = TRUE], <<>>)
                /\ result' = Results(c, NotInitializedMsg)
                /\ pc' = pc
                /\ procs' = procs
           ELSE \E out \in QuitOutcomes,
                   exits \in {b \in BOOLEAN : b => ResolveExe \in procs} :
                /\ procs' = IF exits THEN procs \ {ResolveExe} ELSE procs
                /\ frame' = [d \in Callers |->
                                IF d = c
                                THEN [fr EXCEPT !.raised = (out # "return")]
                                ELSE IF pc[d] = "idle" THEN NoFrame
                                ELSE IF exits
                                     THEN [frame[d] EXCEPT !.disturbed = TRUE]
                                     ELSE frame[d]]
                /\ steps' = [d \in Callers |->
                                IF d = c THEN <<"Quit">>
                                ELSE IF pc[d] = "idle" THEN <<>> ELSE steps[d]]
                /\ IF out = "return"
                   THEN /\ result' = Results(c, NoResult)
                        /\ pc' = [pc EXCEPT ![c] = "quit_tasklist"]
                   ELSE /\ result' = Results(c, IF out = "AttributeError"
                                                THEN NotInitializedMsg
                                                ELSE FailedQuitMsg(QuitError))
                        /\ pc' = pc
    /\ UNCHANGED <<fs, inst, page, wcall>>

\* quit's subprocess.run(['tasklist']) and the test of its stdout.
QuitTasklist(c) ==
    /\ pc[c] = "quit_tasklist"
    /\ steps' = [steps EXCEPT ![c] = Append(@, "tasklist")]
    /\ \/ \E e \in OsErrors :
            /\ frame' = [frame EXCEPT ![c].raised = TRUE]
            /\ Return(c, FailedQuitMsg(e))
       \/ LET stdout == TasklistStdout(procs)
          IN  /\ frame' = [frame EXCEPT ![c].stdout = stdout,
                                        ![c].found1 = In(ResolveExe, stdout)]
              /\ Return(c, IF Closed(stdout) THEN ClosedMsg
                           ELSE DidNotCloseMsg)
    /\ UNCHANGED <<procs, fs, inst, page, wcall>>

(***************************************************************************)
(* The rest of the machine                                                  *)
(***************************************************************************)

\* Somebody else starts a program: the user, another program.
ProcStart(img) ==
    /\ img \notin procs
    /\ procs' = procs \cup {img}
    /\ frame' = IF In(ResolveExe, img) THEN Disturb(0, frame) ELSE frame
    /\ UNCHANGED <<fs, inst, page, wcall, pc, steps, result>>

\* A program exits by itself, crashes or is closed.
ProcExit(img) ==
    /\ img \in procs
    /\ procs' = procs \ {img}
    /\ frame' = IF In(ResolveExe, img) THEN Disturb(0, frame) ELSE frame
    /\ UNCHANGED <<fs, inst, page, wcall, pc, steps, result>>

(***************************************************************************)
(* Python values, written as their repr                                     *)
(***************************************************************************)

\* The values a vendor operation returns: the falsy ones and some truthy ones.
FalsyValues == {"None", "False", "0", "''"}

VendorValues == FalsyValues \cup {"True", "1", "'Master'"}

\* A variant of Truthy that takes every value for true.
Truthy_Always(v) == TRUE

\* bool(v)
Truthy(v) == v \notin FalsyValues

\* A variant of Or that tests for None alone.
Or_IsNone(x, y) == IF x # "None" THEN x ELSE y

\* x or y
Or(x, y) == IF Truthy(x) THEN x ELSE y

\* What a call does in the end: it returns a value or raises an exception.
Returns(v) == [kind |-> "return", value |-> v]

Raises(e) == [kind |-> "raise", value |-> e]

\* What a vendor operation can do: return one of the values, or raise.
VendorOutcomes == {Returns(v) : v \in VendorValues} \cup {Raises("RuntimeError")}

\* The values callers pass as arguments.
ArgValues == {"'a'", "'b'"}

\* Most items a caller passes to the variadic add_item_list_to_media_pool.
MaxItems == 2

\* The handle bmd.scriptapp returns for a running application, and the vendor
\* objects it hands out.
AppHandle == "<Resolve>"

VendorMediaStorage == "<MediaStorage>"

VendorProjectManager == "<ProjectManager>"

\* The wrapper objects MediaStorage(media_storage) and
\* ProjectManager(project_manager), as the object they wrap.
MediaStorage(media_storage_) == "MediaStorage(" \o media_storage_ \o ")"

ProjectManager(project_manager_) == "ProjectManager(" \o project_manager_ \o ")"

\* The record of a call of open_page or of a wrapper method: who called what
\* with which arguments, the vendor calls made (on which object, which
\* operation, with which arguments and what came of it), and the outcome.
\* held is the field of self the method works on (self.app,
\* self.media_storage, self.project_manager) as it was in the call.
NoCall ==
    [self |-> 0, held |-> "None", cls |-> "", method |-> <<>>, args |-> <<>>,
     vendor |-> <<>>, outcome |-> Returns("None")]

(***************************************************************************)
(* Resolve.__init__                                                         *)
(***************************************************************************)

\* What bmd.scriptapp(app) can do: raise, return None when it reaches no
\* application, or return a handle to the application that runs.
ScriptappOutcomes ==
    {Raises("RuntimeError"), Returns(PyNone)}
        \cup (IF ResolveExe \in procs THEN {Returns(AppHandle)} ELSE {})

\* Resolve(app='Resolve'): the three fields after construction, and the record
\* of the vendor calls made.  The fields start as None; GetMediaStorage and
\* GetProjectManager are called when self.app is truthy; each call can raise,
\* and the except clause leaves the fields assigned so far.
Construct(c) ==
    /\ pc[c] = "idle"
    /\ \E sa \in ScriptappOutcomes,
          ms \in {Raises("RuntimeError"), Returns(VendorMediaStorage)},
          pm \in {Raises("RuntimeError"), Returns(VendorProjectManager)} :
          LET handle == IF sa.kind = "return" THEN sa.value ELSE PyNone
              asked_ms == Truthy(handle)
              got_ms == asked_ms /\ ms.kind = "return"
              got_pm == got_ms /\ pm.kind = "return"
          IN  /\ app' = [app EXCEPT ![c] = handle]
              /\ media_storage' = [media_storage EXCEPT ![c] =
                    IF got_ms THEN MediaStorage(ms.value) ELSE PyNone]
              /\ project_manager' = [project_manager EXCEPT ![c] =
                    IF got_pm THEN ProjectManager(pm.value) ELSE PyNone]
              /\ wcall' =
                    [self |-> c, held |-> PyNone, cls |-> "Resolve",
                     method |-> <<"__init__">>, args |-> <<"'Resolve'">>,
                     vendor |->
                        <<[obj |-> "bmd", op |-> "scriptapp",
                           args |-> <<"'Resolve'">>, out |-> sa]>>
                        \o (IF asked_ms
                            THEN <<[obj |-> handle, op |-> "GetMediaStorage",
                                    args |-> <<>>, out |-> ms]>>
                            ELSE <<>>)
                        \o (IF got_ms
                            THEN <<[obj |-> handle, op |-> "GetProjectManager",
                                    args |-> <<>>, out |-> pm]>>
                            ELSE <<>>),
                     outcome |-> Returns(PyNone)]
    /\ UNCHANGED <<procs, fs, life, page>>

\* A variant of get_media_storage that connects when the field is None and
\* the application runs.
get_media_storage_Lazy(c) ==
    /\ pc[c] = "idle"
    /\ media_storage' = [media_storage EXCEPT ![c] =
          IF @ = PyNone /\ ResolveExe \in procs
          THEN MediaStorage(VendorMediaStorage) ELSE @]
    /\ wcall' = [self |-> c, held |-> app[c], cls |-> "Resolve",
                 method |-> <<"get", "media", "storage">>, args |-> <<>>,
                 vendor |-> <<>>, outcome |-> Returns(media_storage'[c])]
    /\ UNCHANGED <<procs, fs, app, project_manager, life, page>>

\* get_media_storage(): return self.media_storage
get_media_storage(c) ==
    /\ pc[c] = "idle"
    /\ wcall' = [self |-> c, held |-> app[c], cls |-> "Resolve",
                 method |-> <<"get", "media", "storage">>, args |-> <<>>,
                 vendor |-> <<>>, outcome |-> Returns(media_storage[c])]
    /\ UNCHANGED <<procs, fs, inst, life, page>>

\* get_project_manager(): return self.project_manager
get_project_manager(c) ==
    /\ pc[c] = "idle"
    /\ wcall' = [self |-> c, held |-> app[c], cls |-> "Resolve",
                 method |-> <<"get", "project", "manager">>, args |-> <<>>,
                 vendor |-> <<>>, outcome |-> Returns(project_manager[c])]
    /\ UNCHANGED <<procs, fs, inst, life, page>>

(***************************************************************************)
(* Resolve.open_page                                                        *)
(***************************************************************************)

\* str.lower() on one character.
LowerChar(ch) ==
    CASE ch = "A" -> "a"
      [] ch = "B" -> "b"
      [] ch = "C" -> "c"
      [] ch = "D" -> "d"
      [] ch = "E" -> "e"
      [] ch = "F" -> "f"
      [] ch = "G" -> "g"
      [] ch = "H" -> "h"
      [] ch = "I" -> "i"
      [] ch = "J" -> "j"
      [] ch = "K" -> "k"
      [] ch = "L" -> "l"
      [] ch = "M" -> "m"
      [] ch = "N" -> "n"
      [] ch = "O" -> "o"
      [] ch = "P" -> "p"
      [] ch = "Q" -> "q"
      [] ch = "R" -> "r"
      [] ch = "S" -> "s"
      [] ch = "T" -> "t"
      [] ch = "U" -> "u"
      [] ch = "V" -> "v"
      [] ch = "W" -> "w"
      [] ch = "X" -> "x"
      [] ch = "Y" -> "y"
      [] ch = "Z" -> "z"
      [] OTHER -> ch

\* A variant of Lower that leaves the name as it is.
Lower_Identity(str) == str

\* str.lower()
Lower(str) == [i \in DOMAIN str |-> LowerChar(str[i])]

\* valid_pages, the list of open_page.
valid_pages ==
    <<<<"m","e","d","i","a">>,
      <<"c","u","t">>,
      <<"e","d","i","t">>,
      <<"f","u","s","i","o","n">>,
      <<"c","o","l","o","r">>,
      <<"f","a","i","r","l","i","g","h","t">>,
      <<"d","e","l","i","v","e","r">>>>

\* x in list
InList(x, list) == \E i \in DOMAIN list : list[i] = x

\* The page names callers pass: every valid name, some in upper or mixed
\* case, and names that are not pages.
PageNames ==
    {valid_pages[i] : i \in DOMAIN valid_pages}
        \cup {<<"E","d","i","t">>,
               <<"C","O","L","O","R">>,
               <<"D","e","l","i","v","e","r">>,
               <<"r","e","n","d","e","r">>,
               <<"c","u","t"," ">>,
               <<>>}

\* open_page(page_name).  The vendor's OpenPage returns True and shows the
\* page, or returns False and shows what it showed, or raises.
open_page(c, page_name) ==
    /\ pc[c] = "idle"
    /\ IF ~InList(Lower(page_name), valid_pages)
       THEN /\ wcall' = [self |-> c, held |-> app[c], cls |-> "Resolve", method |-> <<"open", "page">>,
                         args |-> <<page_name>>, vendor |-> <<>>,
                         outcome |-> Raises("ValueError")]
            /\ page' = page
       ELSE IF app[c] = PyNone
       THEN /\ wcall' = [self |-> c, held |-> app[c], cls |-> "Resolve", method |-> <<"open", "page">>,
                         args |-> <<page_name>>, vendor |-> <<>>,
                         outcome |-> Raises("AttributeError")]
            /\ page' = page
       ELSE \E out \in {Returns("True"), Returns("False"), Raises("RuntimeError")} :
            /\ wcall' = [self |-> c, held |-> app[c], cls |-> "Resolve", method |-> <<"open", "page">>,
                         args |-> <<page_name>>,
                         vendor |-> <<[obj |-> app[c], op |-> "OpenPage",
                                       args |-> <<Lower(page_name)>>,
                                       out |-> out]>>,
                         outcome |-> out]
            /\ page' = IF out = Returns("True") THEN Lower(page_name) ELSE page
    /\ UNCHANGED <<procs, fs, inst, life>>

(***************************************************************************)
(* MediaStorage and ProjectManager: one definition per method, holding what *)
(* its def line and its return statement say: the parameters (how many are  *)
(* required, the defaults of the others), the vendor operation called, the  *)
(* parameters forwarded to it in order, and what is done to the result.     *)
(***************************************************************************)

\* MediaStorage.get_mounted_volume_list: return self.media_storage.GetMountedVolumeList()
get_mounted_volume_list ==
    [cls |-> "MediaStorage", name |-> <<"get", "mounted", "volume", "list">>,
     required |-> 0, defaults |-> <<>>, variadic |-> FALSE,
     op |-> "GetMountedVolumeList", forward |-> <<>>, post |-> ""]

\* MediaStorage.get_sub_folder_list: return self.media_storage.GetSubFolderList(folder_path)
get_sub_folder_list ==
    [cls |-> "MediaStorage", name |-> <<"get", "sub", "folder", "list">>,
     required |-> 1, defaults |-> <<>>, variadic |-> FALSE,
     op |-> "GetSubFolderList", forward |-> <<1>>, post |-> ""]

\* MediaStorage.get_file_list: return self.media_storage.GetFileList(folder_path)
get_file_list ==
    [cls |-> "MediaStorage", name |-> <<"get", "file", "list">>,
     required |-> 1, defaults |-> <<>>, variadic |-> FALSE,
     op |-> "GetFileList", forward |-> <<1>>, post |-> ""]

\* MediaStorage.reveal_in_storage: return self.media_storage.RevealInStorage(path)
reveal_in_storage ==
    [cls |-> "MediaStorage", name |-> <<"reveal", "in", "storage">>,
     required |-> 1, defaults |-> <<>>, variadic |-> FALSE,
     op |-> "RevealInStorage", forward |-> <<1>>, post |-> ""]

\* MediaStorage.add_item_list_to_media_pool: return self.media_storage.AddItemListToMediaPool(*items)
add_item_list_to_media_pool ==
    [cls |-> "MediaStorage", name |-> <<"add", "item", "list", "to", "media", "pool">>,
     required |-> 0, defaults |-> <<>>, variadic |-> TRUE,
     op |-> "AddItemListToMediaPool", forward |-> <<>>, post |-> ""]

\* MediaStorage.add_item_list_to_media_pool_array: return self.media_storage.AddItemListToMediaPool(items)
add_item_list_to_media_pool_array ==
    [cls |-> "MediaStorage", name |-> <<"add", "item", "list", "to", "media", "pool", "array">>,
     required |-> 1, defaults |-> <<>>, variadic |-> FALSE,
     op |-> "AddItemListToMediaPool", forward |-> <<1>>, post |-> ""]

\* MediaStorage.add_item_list_to_media_pool_info: return self.media_storage.AddItemListToMediaPool(item_info_list)
add_item_list_to_media_pool_info ==
    [cls |-> "MediaStorage", name |-> <<"add", "item", "list", "to", "media", "pool", "info">>,
     required |-> 1, defaults |-> <<>>, variadic |-> FALSE,
     op |-> "AddItemListToMediaPool", forward |-> <<1>>, post |-> ""]

\* MediaStorage.add_clip_mattes_to_media_pool: return self.media_storage.AddClipMattesToMediaPool(media_pool_item, paths, stereo_eye)
add_clip_mattes_to_media_pool ==
    [cls |-> "MediaStorage", name |-> <<"add", "clip", "mattes", "to", "media", "pool">>,
     required |-> 2, defaults |-> <<"None">>, variadic |-> FALSE,
     op |-> "AddClipMattesToMediaPool", forward |-> <<1, 2, 3>>, post |-> ""]

\* MediaStorage.add_timeline_mattes_to_media_pool: return self.media_storage.AddTimelineMattesToMediaPool(paths)
add_timeline_mattes_to_media_pool ==
    [cls |-> "MediaStorage", name |-> <<"add", "timeline", "mattes", "to", "media", "pool">>,
     required |-> 1, defaults |-> <<>>, variadic |-> FALSE,
     op |-> "AddTimelineMattesToMediaPool", forward |-> <<1>>, post |-> ""]

\* ProjectManager.archive_project: return self.project_manager.ArchiveProject(project_name, file_path, is_archive_src_media, is_archive_render_cache, is_archive_proxy_media)
archive_project ==
    [cls |-> "ProjectManager", name |-> <<"archive", "project">>,
     required |-> 2, defaults |-> <<"True", "True", "False">>, variadic |-> FALSE,
     op |-> "ArchiveProject", forward |-> <<1, 2, 3, 4, 5>>, post |-> ""]

\* ProjectManager.create_project: return self.project_manager.CreateProject(project_name)
create_project ==
    [cls |-> "ProjectManager", name |-> <<"create", "project">>,
     required |-> 1, defaults |-> <<>>, variadic |-> FALSE,
     op |-> "CreateProject", forward |-> <<1>>, post |-> ""]

\* ProjectManager.delete_project: return self.project_manager.DeleteProject(project_name)
delete_project ==
    [cls |-> "ProjectManager", name |-> <<"delete", "project">>,
     required |-> 1, defaults |-> <<>>, variadic |-> FALSE,
     op |-> "DeleteProject", forward |-> <<1>>, post |-> ""]

\* ProjectManager.load_project: return self.project_manager.LoadProject(project_name)
load_project ==
    [cls |-> "ProjectManager", name |-> <<"load", "project">>,
     required |-> 1, defaults |-> <<>>, variadic |-> FALSE,
     op |-> "LoadProject", forward |-> <<1>>, post |-> ""]

\* ProjectManager.get_current_project: return self.project_manager.GetCurrentProject()
get_current_project ==
    [cls |-> "ProjectManager", name |-> <<"get", "current", "project">>,
     required |-> 0, defaults |-> <<>>, variadic |-> FALSE,
     op |-> "GetCurrentProject", forward |-> <<>>, post |-> ""]

\* ProjectManager.save_project: return self.project_manager.SaveProject()
save_project ==
    [cls |-> "ProjectManager", name |-> <<"save", "project">>,
     required |-> 0, defaults |-> <<>>, variadic |-> FALSE,
     op |-> "SaveProject", forward |-> <<>>, post |-> ""]

\* ProjectManager.close_project: return self.project_manager.CloseProject(project)
close_project ==
    [cls |-> "ProjectManager", name |-> <<"close", "project">>,
     required |-> 1, defaults |-> <<>>, variadic |-> FALSE,
     op |-> "CloseProject", forward |-> <<1>>, post |-> ""]

\* ProjectManager.create_folder: return self.project_manager.CreateFolder(folder_name)
create_folder ==
    [cls |-> "ProjectManager", name |-> <<"create", "folder">>,
     required |-> 1, defaults |-> <<>>, variadic |-> FALSE,
     op |-> "CreateFolder", forward |-> <<1>>, post |-> ""]

\* ProjectManager.delete_folder: return self.project_manager.DeleteFolder(folder_name)
delete_folder ==
    [cls |-> "ProjectManager", name |-> <<"delete", "folder">>,
     required |-> 1, defaults |-> <<>>, variadic |-> FALSE,
     op |-> "DeleteFolder", forward |-> <<1>>, post |-> ""]

\* ProjectManager.get_project_list_in_current_folder: return self.project_manager.GetProjectListInCurrentFolder()
get_project_list_in_current_folder ==
    [cls |-> "ProjectManager", name |-> <<"get", "project", "list", "in", "current", "folder">>,
     required |-> 0, defaults |-> <<>>, variadic |-> FALSE,
     op |-> "GetProjectListInCurrentFolder", forward |-> <<>>, post |-> ""]

\* ProjectManager.get_folder_list_in_current_folder: return self.project_manager.GetFolderListInCurrentFolder()
get_folder_list_in_current_folder ==
    [cls |-> "ProjectManager", name |-> <<"get", "folder", "list", "in", "current", "folder">>,
     required |-> 0, defaults |-> <<>>, variadic |-> FALSE,
     op |-> "GetFolderListInCurrentFolder", forward |-> <<>>, post |-> ""]

\* ProjectManager.goto_root_folder: return self.project_manager.GotoRootFolder()
goto_root_folder ==
    [cls |-> "ProjectManager", name |-> <<"goto", "root", "folder">>,
     required |-> 0, defaults |-> <<>>, variadic |-> FALSE,
     op |-> "GotoRootFolder", forward |-> <<>>, post |-> ""]

\* ProjectManager.goto_parent_folder: return self.project_manager.GotoParentFolder()
goto_parent_folder ==
    [cls |-> "ProjectManager", name |-> <<"goto", "parent", "folder">>,
     required |-> 0, defaults |-> <<>>, variadic |-> FALSE,
     op |-> "GotoParentFolder", forward |-> <<>>, post |-> ""]

\* ProjectManager.get_current_folder: return self.project_manager.GetCurrentFolder() or None
get_current_folder ==
    [cls |-> "ProjectManager", name |-> <<"get", "current", "folder">>,
     required |-> 0, defaults |-> <<>>, variadic |-> FALSE,
     op |-> "GetCurrentFolder", forward |-> <<>>, post |-> "or None"]

\* ProjectManager.open_folder: return self.project_manager.OpenFolder(folder_name)
open_folder ==
    [cls |-> "ProjectManager", name |-> <<"open", "folder">>,
     required |-> 1, defaults |-> <<>>, variadic |-> FALSE,
     op |-> "OpenFolder", forward |-> <<1>>, post |-> ""]

\* ProjectManager.import_project: return self.project_manager.ImportProject(file_path, project_name)
import_project ==
    [cls |-> "ProjectManager", name |-> <<"import", "project">>,
     required |-> 1, defaults |-> <<"None">>, variadic |-> FALSE,
     op |-> "ImportProject", forward |-> <<1, 2>>, post |-> ""]

\* ProjectManager.export_project: return self.project_manager.ExportProject(project_name, file_path, with_stills_and_luts)
export_project ==
    [cls |-> "ProjectManager", name |-> <<"export", "project">>,
     required |-> 2, defaults |-> <<"True">>, variadic |-> FALSE,
     op |-> "ExportProject", forward |-> <<1, 2, 3>>, post |-> ""]

\* ProjectManager.restore_project: return self.project_manager.RestoreProject(file_path, project_name)
restore_project ==
    [cls |-> "ProjectManager", name |-> <<"restore", "project">>,
     required |-> 1, defaults |-> <<"None">>, variadic |-> FALSE,
     op |-> "RestoreProject", forward |-> <<1, 2>>, post |-> ""]

\* ProjectManager.get_current_database: return self.project_manager.GetCurrentDatabase()
get_current_database ==
    [cls |-> "ProjectManager", name |-> <<"get", "current", "database">>,
     required |-> 0, defaults |-> <<>>, variadic |-> FALSE,
     op |-> "GetCurrentDatabase", forward |-> <<>>, post |-> ""]

\* ProjectManager.get_database_list: return self.project_manager.GetDatabaseList()
get_database_list ==
    [cls |-> "ProjectManager", name |-> <<"get", "database", "list">>,
     required |-> 0, defaults |-> <<>>, variadic |-> FALSE,
     op |-> "GetDatabaseList", forward |-> <<>>, post |-> ""]

\* ProjectManager.set_current_database: return self.project_manager.SetCurrentDatabase(db_info)
set_current_database ==
    [cls |-> "ProjectManager", name |-> <<"set", "current", "database">>,
     required |-> 1, defaults |-> <<>>, variadic |-> FALSE,
     op |-> "SetCurrentDatabase", forward |-> <<1>>, post |-> ""]

\* ProjectManager.create_cloud_project: return self.project_manager.CreateCloudProject(cloud_settings)
create_cloud_project ==
    [cls |-> "ProjectManager", name |-> <<"create", "cloud", "project">>,
     required |-> 1, defaults |-> <<>>, variadic |-> FALSE,
     op |-> "CreateCloudProject", forward |-> <<1>>, post |-> ""]

\* ProjectManager.import_cloud_project: return self.project_manager.ImportCloudProject(file_path, cloud_settings)
import_cloud_project ==
    [cls |-> "ProjectManager", name |-> <<"import", "cloud", "project">>,
     required |-> 2, defaults |-> <<>>, variadic |-> FALSE,
     op |-> "ImportCloudProject", forward |-> <<1, 2>>, post |-> ""]

\* ProjectManager.restore_cloud_project: return self.project_manager.RestoreCloudProject(folder_path, cloud_settings)
restore_cloud_project ==
    [cls |-> "ProjectManager", name |-> <<"restore", "cloud", "project">>,
     required |-> 2, defaults |-> <<>>, variadic |-> FALSE,
     op |-> "RestoreCloudProject", forward |-> <<1, 2>>, post |-> ""]

MediaStorageMethods ==
    {get_mounted_volume_list, get_sub_folder_list, get_file_list,
     reveal_in_storage, add_item_list_to_media_pool,
     add_item_list_to_media_pool_array, add_item_list_to_media_pool_info,
     add_clip_mattes_to_media_pool, add_timeline_mattes_to_media_pool}

ProjectManagerMethods ==
    {archive_project, create_project, delete_project, load_project,
     get_current_project, save_project, close_project, create_folder,
     delete_folder, get_project_list_in_current_folder,
     get_folder_list_in_current_folder, goto_root_folder,
     goto_parent_folder, get_current_folder, open_folder, import_project,
     export_project, restore_project, get_current_database,
     get_database_list, set_current_database, create_cloud_project,
     import_cloud_project, restore_cloud_project}

Methods == MediaStorageMethods \cup ProjectManagerMethods

\* The argument lists a caller can pass to the method m.
ArgLists(m) ==
    IF m.variadic
    THEN UNION {[1..n -> ArgValues] : n \in 0..MaxItems}
    ELSE UNION {[1..n -> ArgValues] :
                    n \in m.required..(m.required + Len(m.defaults))}

\* The values of m's parameters in a call with the arguments args: the
\* arguments, then the defaults of the parameters left out.
Bind(m, args) ==
    IF m.variadic THEN args
    ELSE args \o SubSeq(m.defaults, Len(args) - m.required + 1, Len(m.defaults))

\* A variant of Forwarded that passes the parameters in reverse order.
Forwarded_Reversed(m, args) ==
    LET b == Bind(m, args)
    IN  IF m.variadic THEN b
        ELSE [i \in DOMAIN m.forward |-> b[m.forward[Len(m.forward) + 1 - i]]]

\* The arguments of the vendor call made by m called with args.
Forwarded(m, args) ==
    LET b == Bind(m, args)
    IN  IF m.variadic THEN b
        ELSE [i \in DOMAIN m.forward |-> b[m.forward[i]]]

\* What m makes of the vendor's outcome: an exception passes through, a
\* returned value is returned, after `or None` where the method has it.
Outcome(m, out) ==
    IF out.kind = "return" /\ m.post = "or None"
    THEN Returns(Or(out.value, "None"))
    ELSE out

\* The wrapper object of class cls that c's instance holds.
Holder(c, cls) ==
    IF cls = "MediaStorage" THEN media_storage[c] ELSE project_manager[c]

\* The method m of the wrapper c got from get_media_storage() or
\* get_project_manager(), called with args.
WrapperCall(c, m, args) ==
    /\ pc[c] = "idle"
    /\ Holder(c, m.cls) # PyNone
    /\ \E out \in VendorOutcomes :
          wcall' = [self |-> c, held |-> Holder(c, m.cls), cls |-> m.cls,
                    method |-> m.name, args |-> args,
                    vendor |-> <<[obj |-> Holder(c, m.cls), op |-> m.op,
                                  args |-> Forwarded(m, args),
                                  out |-> out]>>,
                    outcome |-> Outcome(m, out)]
    /\ UNCHANGED <<procs, fs, inst, life, page>>

(***************************************************************************)
(* Specification: one program calling open and kill on its instances, one   *)
(* call at a time, on a machine where processes come and go.                *)
(***************************************************************************)

\* The program is single-threaded: a call starts when no call is in progress.
NoCallInProgress == \A d \in Callers : pc[d] = "idle"

Init ==
    /\ procs \in SUBSET Images
    /\ fs \in SUBSET Paths
    /\ app = [c \in Callers |-> PyNone]
    /\ media_storage = [c \in Callers |-> PyNone]
    /\ project_manager = [c \in Callers |-> PyNone]
    /\ pc = [c \in Callers |-> "idle"]
    /\ frame = [c \in Callers |-> NoFrame]
    /\ steps = [c \in Callers |-> <<>>]
    /\ result = [c \in Callers |-> NoResult]
    /\ page = valid_pages[1]
    /\ wcall = NoCall

Next ==
    \/ \E c \in Callers, p \in Paths, w \in WaitTimes, g \in GuiValues :
            NoCallInProgress /\ OpenCall(c, p, w, g)
    \/ \E c \in Callers : OpenTasklist1(c)
    \/ \E c \in Callers : OpenLaunch(c)
    \/ \E c \in Callers : OpenSleep(c)
    \/ \E c \in Callers : OpenTasklist2(c)
    \/ \E c \in Callers : NoCallInProgress /\ Kill(c)
    \/ \E img \in Images : ProcStart(img)
    \/ \E img \in Images : ProcExit(img)

Spec == Init /\ [][Next]_vars

(***************************************************************************)
(* Specification: one program constructing Resolve instances, switching     *)
(* pages and calling the methods of the wrappers they hold.                 *)
(***************************************************************************)

InitWrap ==
    /\ procs \in {{}, {ResolveExe}}
    /\ fs = {DefaultPath}
    /\ app = [c \in Callers |-> PyNone]
    /\ media_storage = [c \in Callers |-> PyNone]
    /\ project_manager = [c \in Callers |-> PyNone]
    /\ pc = [c \in Callers |-> "idle"]
    /\ frame = [c \in Callers |-> NoFrame]
    /\ steps = [c \in Callers |-> <<>>]
    /\ result = [c \in Callers |-> NoResult]
    /\ page \in {valid_pages[i] : i \in DOMAIN valid_pages}
    /\ wcall = NoCall

\* The caller has taken the outcome of its call; nothing records it any more.
Discard ==
    /\ wcall # NoCall
    /\ wcall' = NoCall
    /\ UNCHANGED <<procs, fs, inst, life, page>>

\* The program is single-threaded: it constructs and calls when the call
\* before has returned and its outcome has been taken.
NextWrap ==
    \/ \E c \in Callers : wcall = NoCall /\ Construct(c)
    \/ \E c \in Callers, page_name \in PageNames :
            wcall = NoCall /\ open_page(c, page_name)
    \/ \E c \in Callers, m \in Methods :
            \E args \in ArgLists(m) : wcall = NoCall /\ WrapperCall(c, m, args)
    \/ Discard

SpecWrap == InitWrap /\ [][NextWrap]_vars

(***************************************************************************)
(* Specification: one program constructing Resolve instances and calling    *)
(* open, quit, kill and the two getters on them, one call at a time, on a   *)
(* machine where processes come and go.                                     *)
(***************************************************************************)

\* The programs that matter to quit and kill: Resolve and its lookalike.
ConnImages == {ResolveExe, LookalikeExe}

InitConn ==
    /\ procs \in SUBSET ConnImages
    /\ fs = {DefaultPath}
    /\ app = [c \in Callers |-> PyNone]
    /\ media_storage = [c \in Callers |-> PyNone]
    /\ project_manager = [c \in Callers |-> PyNone]
    /\ pc = [c \in Callers |-> "idle"]
    /\ frame = [c \in Callers |-> NoFrame]
    /\ steps = [c \in Callers |-> <<>>]
    /\ result = [c \in Callers |-> NoResult]
    /\ page = valid_pages[1]
    /\ wcall = NoCall

\* No call is in progress and the outcome of the last one has been taken.
Quiet == NoCallInProgress /\ wcall = NoCall

NextConn ==
    \/ \E c \in Callers : Quiet /\ Construct(c)
    \/ \E c \in Callers : Quiet /\ get_media_storage(c)
    \/ \E c \in Callers : Quiet /\ get_project_manager(c)
    \/ \E c \in Callers, g \in {"-gui", "-nogui"} :
            Quiet /\ OpenCall(c, DefaultPath, 15, g)
    \/ \E c \in Callers : OpenTasklist1(c)
    \/ \E c \in Callers : OpenLaunch(c)
    \/ \E c \in Callers : OpenSleep(c)
    \/ \E c \in Callers : OpenTasklist2(c)
    \/ \E c \in Callers : Quiet /\ Quit(c)
    \/ \E c \in Callers : QuitTasklist(c)
    \/ \E c \in Callers : Quiet /\ Kill(c)
    \/ \E img \in ConnImages : ProcStart(img)
    \/ \E img \in ConnImages : ProcExit(img)
    \/ Discard

SpecConn == InitConn /\ [][NextConn]_vars

(***************************************************************************)
(* Specification: callers in different threads or programs calling open at  *)
(* the same time, with an existing executable, on a machine where Resolve   *)
(* is stopped and nobody else starts or stops it.                           *)
(***************************************************************************)

InitRace ==
    /\ procs \in SUBSET {ExplorerExe}
    /\ fs = {DefaultPath}
    /\ app = [c \in Callers |-> PyNone]
    /\ media_storage = [c \in Callers |-> PyNone]
    /\ project_manager = [c \in Callers |-> PyNone]
    /\ pc = [c \in Callers |-> "idle"]
    /\ frame = [c \in Callers |-> NoFrame]
    /\ steps = [c \in Callers |-> <<>>]
    /\ result = [c \in Callers |-> NoResult]
    /\ page = valid_pages[1]
    /\ wcall = NoCall

\* A caller's steps interleave with the steps of the others.
NextRace ==
    \/ \E c \in Callers, g \in {"-gui", "-nogui"} :
            OpenCall(c, DefaultPath, 15, g)
    \/ \E c \in Callers : OpenTasklist1(c)
    \/ \E c \in Callers : OpenLaunch(c)
    \/ \E c \in Callers : OpenSleep(c)
    \/ \E c \in Callers : OpenTasklist2(c)
    \/ ProcStart(ExplorerExe)
    \/ ProcExit(ExplorerExe)

SpecRace == InitRace /\ [][NextRace]_vars

(***************************************************************************)
(* Properties of open                                                       *)
(***************************************************************************)

\* Number of times op occurs in the sequence of system calls seq.
Count(op, seq) == Cardinality({i \in DOMAIN seq : seq[i] = op})

\* c's record is that of a call of open.
IsOpen(c) == frame[c].method = "open"

\* c's record is that of a call of open that has returned.
OpenReturned(c) == IsOpen(c) /\ pc[c] = "idle"

\* c takes the step of its call that stands at position at.
Steps(c, at) == pc[c] = at /\ pc'[c] # at

\* C1: open with an executable_path that does not exist returns the "not
\* found" message naming that path, having made no system call after the path
\* check: no task-list query, no launch, no sleep; whether Resolve runs or not.
C1_NotFoundFirst ==
    \A c \in Callers :
        (IsOpen(c) /\ frame[c].executable_path \notin fs) =>
            /\ pc[c] = "idle"
            /\ result[c] = "Error: Resolve executable not found at '"
                            \o frame[c].executable_path
                            \o "'. Please check the path and try again."
            /\ steps[c] = <<"exists">>

\* C1's case: a call with a missing path has returned while Resolve runs.
C1_Witness ==
    \E c \in Callers :
        /\ OpenReturned(c)
        /\ frame[c].executable_path = WrongPath
        /\ WrongPath \notin fs
        /\ ResolveExe \in procs
        /\ result[c] # NoResult

\* C2: when 'Resolve.exe' is in the task list at the first check of a call
\* whose path exists, the call returns "already running" at that step, with no
\* launch, no sleep and no second query, and leaves the processes as they are.
C2_AlreadyRunning ==
    [][\A c \in Callers :
          (Steps(c, "open_tasklist1") /\ ~frame'[c].raised /\ Listed(procs)) =>
              /\ pc'[c] = "idle"
              /\ result'[c] = "DaVinci Resolve is already running."
              /\ steps'[c] = <<"exists", "tasklist">>
              /\ procs' = procs]_vars

\* C2's case: a call has returned from its first check with Resolve listed.
C2_Witness ==
    \E c \in Callers :
        /\ OpenReturned(c)
        /\ frame[c].found1
        /\ Listed(procs)
        /\ steps[c] = <<"exists", "tasklist">>

\* C3: in the modes '-gui' and '-nogui', a call that found Resolve not running
\* returns "opened successfully" exactly when its second check, made after the
\* wait, finds 'Resolve.exe' in the task list; when that check does not raise
\* and does not find it, the call returns "failed to detect".
C3_SecondCheckDecides ==
    /\ [](\A c \in Callers :
            (OpenReturned(c) /\ frame[c].gui \in {"-gui", "-nogui"}
               /\ result[c] = "DaVinci Resolve opened successfully.") =>
                /\ ~frame[c].found1
                /\ steps[c] = <<"exists", "tasklist", "Popen", "sleep", "tasklist">>)
    /\ [][\A c \in Callers :
            (Steps(c, "open_tasklist2") /\ frame[c].gui \in {"-gui", "-nogui"}) =>
                /\ pc'[c] = "idle"
                /\ (result'[c] = "DaVinci Resolve opened successfully.")
                      <=> (~frame'[c].raised /\ Listed(procs))
                /\ (~frame'[c].raised /\ ~Listed(procs)) =>
                      result'[c] = "Error: Failed to detect Resolve in the task list. Please verify if the application has started."]_vars

\* C3's cases: in mode '-nogui' a call has ended "opened successfully", and in
\* mode '-gui' another has ended "failed to detect".
C3_Witness ==
    \E c \in Callers :
        /\ OpenReturned(c)
        /\ frame[c].gui = "-nogui"
        /\ result[c] = OpenedMsg
        /\ frame[c].found2

C3_WitnessNotDetected ==
    \E c \in Callers :
        /\ OpenReturned(c)
        /\ frame[c].gui = "-gui"
        /\ result[c] = FailedDetectMsg
        /\ "Popen" \in {steps[c][i] : i \in DOMAIN steps[c]}

\* C4: over open and kill calls made one after the other, with an existing
\* executable, no exception, and no program listed as 'Resolve.exe' started
\* or stopped by anybody else: an open issued while none is listed launches
\* Resolve and returns "opened successfully", an open issued while one is
\* listed returns "already running", and a kill that returned "forcefully
\* terminated" leaves Resolve stopped, so that the next open is of the first
\* kind.
C4_OpenKillCycle ==
    \A c \in Callers :
        /\ (OpenReturned(c) /\ frame[c].executable_path \in fs
              /\ ~frame[c].raised /\ ~frame[c].disturbed) =>
                IF frame[c].stopped
                THEN /\ result[c] = "DaVinci Resolve opened successfully."
                     /\ Count("Popen", steps[c]) = 1
                ELSE result[c] = "DaVinci Resolve is already running."
        /\ (frame[c].method = "kill"
              /\ result[c] = "DaVinci Resolve has been forcefully terminated.") =>
                (frame[c].disturbed \/ ResolveExe \notin procs)

\* C5: the system calls of one call of open are a prefix of: path check, first
\* task-list query, launch, sleep, second task-list query; the launch alone
\* may be missing.  So at most two queries, one launch and one sleep, no launch
\* before the first query and no second query before the sleep; and the result
\* comes last.
C5_FixedOrder ==
    \A c \in Callers :
        IsOpen(c) =>
            LET q == steps[c]
                at(op) == {i \in DOMAIN q : q[i] = op}
            IN  /\ Len(q) >= 1 /\ q[1] = "exists"
                /\ \A i \in DOMAIN q : q[i] \in {"exists", "tasklist", "Popen", "sleep"}
                /\ Count("exists", q) = 1
                /\ Count("tasklist", q) <= 2
                /\ Count("Popen", q) <= 1
                /\ Count("sleep", q) <= 1
                /\ \A i \in at("Popen") : \E j \in at("tasklist") : j < i
                /\ \A i \in at("sleep") :
                      /\ \E j \in at("tasklist") : j < i
                      /\ \A j \in at("Popen") : j < i
                /\ \A i, j \in at("tasklist") :
                      i < j => \E k \in at("sleep") : i < k /\ k < j
                /\ \A i \in at("tasklist"), j \in at("Popen"), k \in at("sleep") :
                      k < i => j < k
                /\ pc[c] # "idle" => result[c] = NoResult

\* C5's case: a call has gone through all five steps.
C5_Witness ==
    \E c \in Callers :
        /\ OpenReturned(c)
        /\ steps[c] = <<"exists", "tasklist", "Popen", "sleep", "tasklist">>
        /\ result[c] # NoResult

\* C6: for every value of gui, a call of open whose path exists and whose
\* first check did not find 'Resolve.exe' has launched the executable exactly
\* once when it starts to wait.
C6_LaunchesForEveryGui ==
    \A c \in Callers :
        (IsOpen(c) /\ pc[c] = "open_sleep") => Count("Popen", steps[c]) = 1

\* The texts an exception of open's system calls can carry.
OpenErrors == OsErrors \cup {SleepError}

\* C7: open never raises.  A call that has returned has one of the five
\* messages; an exception in a step ends the call at that step with "failed to
\* open" and the exception's text (after a failed launch there is no sleep and
\* no second query); and a call in progress can always take its next step.
C7_ErrorsAsStrings ==
    \A c \in Callers :
        IsOpen(c) =>
            /\ pc[c] = "idle" =>
                \/ result[c] = "Error: Resolve executable not found at '"
                                \o frame[c].executable_path
                                \o "'. Please check the path and try again."
                \/ result[c] = "DaVinci Resolve is already running."
                \/ result[c] = "DaVinci Resolve opened successfully."
                \/ result[c] = "Error: Failed to detect Resolve in the task list. Please verify if the application has started."
                \/ \E e \in OpenErrors :
                      result[c] = "Error: Failed to open DaVinci Resolve - " \o e
            /\ frame[c].raised <=>
                  \E e \in OpenErrors :
                      result[c] = "Error: Failed to open DaVinci Resolve - " \o e
            /\ frame[c].raised =>
                  /\ pc[c] = "idle"
                  /\ frame[c].executable_path \in fs
                  /\ steps[c][Len(steps[c])] = "Popen" =>
                        steps[c] = <<"exists", "tasklist", "Popen">>
            /\ pc[c] # "idle" =>
                  ENABLED (\/ OpenTasklist1(c) \/ OpenLaunch(c)
                           \/ OpenSleep(c) \/ OpenTasklist2(c))

\* C7's case: the launch raised and the call returned "failed to open".
C7_Witness ==
    \E c \in Callers :
        /\ OpenReturned(c)
        /\ frame[c].raised
        /\ steps[c] = <<"exists", "tasklist", "Popen">>
        /\ \E e \in OsErrors : result[c] = FailedOpenMsg(e)

(***************************************************************************)
(* Properties of the wrappers and of open_page                              *)
(***************************************************************************)

\* wcall records a call of the method named name of the class cls.
Called(cls, name) == wcall.cls = cls /\ wcall.method = name

\* C8: get_current_folder makes exactly one vendor call, GetCurrentFolder()
\* on the wrapped object; it returns None when that returned the empty
\* string, None, False or 0, and returns the vendor's value as it is when that
\* is truthy.
C8_CurrentFolderOrNone ==
    Called("ProjectManager", <<"get", "current", "folder">>) =>
        /\ Len(wcall.vendor) = 1
        /\ wcall.vendor[1].obj = wcall.held
        /\ wcall.vendor[1].op = "GetCurrentFolder"
        /\ wcall.vendor[1].args = <<>>
        /\ wcall.vendor[1].out.kind = "return" =>
              IF wcall.vendor[1].out.value \in {"''", "None", "False", "0"}
              THEN wcall.outcome = [kind |-> "return", value |-> "None"]
              ELSE wcall.outcome = wcall.vendor[1].out

\* C8's case: the vendor returned the empty string and the wrapper None.
C8_Witness ==
    /\ Called("ProjectManager", <<"get", "current", "folder">>)
    /\ wcall.vendor[1].out = Returns("''")
    /\ wcall.outcome = Returns("None")

\* A word of a method name with its first letter in upper case.
Cap(w) ==
    CASE w = "add" -> "Add"
      [] w = "archive" -> "Archive"
      [] w = "array" -> "Array"
      [] w = "clip" -> "Clip"
      [] w = "close" -> "Close"
      [] w = "cloud" -> "Cloud"
      [] w = "create" -> "Create"
      [] w = "current" -> "Current"
      [] w = "database" -> "Database"
      [] w = "delete" -> "Delete"
      [] w = "export" -> "Export"
      [] w = "file" -> "File"
      [] w = "folder" -> "Folder"
      [] w = "get" -> "Get"
      [] w = "goto" -> "Goto"
      [] w = "import" -> "Import"
      [] w = "in" -> "In"
      [] w = "info" -> "Info"
      [] w = "item" -> "Item"
      [] w = "list" -> "List"
      [] w = "load" -> "Load"
      [] w = "mattes" -> "Mattes"
      [] w = "media" -> "Media"
      [] w = "mounted" -> "Mounted"
      [] w = "open" -> "Open"
      [] w = "parent" -> "Parent"
      [] w = "pool" -> "Pool"
      [] w = "project" -> "Project"
      [] w = "restore" -> "Restore"
      [] w = "reveal" -> "Reveal"
      [] w = "root" -> "Root"
      [] w = "save" -> "Save"
      [] w = "set" -> "Set"
      [] w = "storage" -> "Storage"
      [] w = "sub" -> "Sub"
      [] w = "timeline" -> "Timeline"
      [] w = "to" -> "To"
      [] w = "volume" -> "Volume"

\* The vendor's name for a method name: its words capitalised and joined.
RECURSIVE Camel(_)
Camel(name) ==
    IF name = <<>> THEN "" ELSE Cap(Head(name)) \o Camel(Tail(name))

\* The three variants of add_item_list_to_media_pool.
AddItemListVariants ==
    {<<"add", "item", "list", "to", "media", "pool">>,
     <<"add", "item", "list", "to", "media", "pool", "array">>,
     <<"add", "item", "list", "to", "media", "pool", "info">>}

\* C9: a call of a MediaStorage or ProjectManager method other than
\* get_current_folder makes exactly one vendor call, on the wrapped object, of
\* the operation of the same name (AddItemListToMediaPool for the three
\* add_item_list_to_media_pool variants), with the call's arguments in their
\* order followed by the declared defaults of the parameters left out; and
\* the call's outcome is the vendor call's, falsy values included.
C9_PassThrough ==
    (/\ wcall.cls \in {"MediaStorage", "ProjectManager"}
     /\ wcall.method # <<"get", "current", "folder">>) =>
        LET m == CHOOSE x \in Methods : x.name = wcall.method
            given == Len(wcall.args)
            left == IF m.variadic THEN <<>>
                    ELSE [i \in 1..(m.required + Len(m.defaults) - given) |->
                            m.defaults[given - m.required + i]]
        IN  /\ Len(wcall.vendor) = 1
            /\ wcall.vendor[1].obj = wcall.held
            /\ wcall.vendor[1].op =
                  IF wcall.method \in AddItemListVariants
                  THEN "AddItemListToMediaPool"
                  ELSE Camel(wcall.method)
            /\ wcall.vendor[1].args = wcall.args \o left
            /\ wcall.outcome = wcall.vendor[1].out

\* C9's case: archive_project called with three arguments, two of them
\* different, forwarded with the two defaults left, and a falsy result.
C9_Witness ==
    /\ Called("ProjectManager", <<"archive", "project">>)
    /\ wcall.args = <<"'a'", "'b'", "'a'">>
    /\ wcall.vendor[1].args = <<"'a'", "'b'", "'a'", "True", "False">>
    /\ wcall.outcome = Returns("False")

\* The lower-cased form of each page name callers pass.
LowerCased(page_name) ==
    CASE page_name = <<"E","d","i","t">> -> <<"e","d","i","t">>
      [] page_name = <<"C","O","L","O","R">> -> <<"c","o","l","o","r">>
      [] page_name = <<"D","e","l","i","v","e","r">> -> <<"d","e","l","i","v","e","r">>
      [] OTHER -> page_name

\* The seven names of the claim.
SevenPages ==
    {<<"m","e","d","i","a">>,
     <<"c","u","t">>,
     <<"e","d","i","t">>,
     <<"f","u","s","i","o","n">>,
     <<"c","o","l","o","r">>,
     <<"f","a","i","r","l","i","g","h","t">>,
     <<"d","e","l","i","v","e","r">>}

\* wcall records a call of open_page.
OpenPageCalled == Called("Resolve", <<"open", "page">>)

QuitErrors == OsErrors \cup {QuitError}

\* c's record is that of a call of quit on an instance whose app is set.
QuitConnected(c) == frame[c].method = "quit" /\ frame[c].held # "None"

\* C11: quit on a connected instance calls the vendor's Quit() first and
\* queries the task list once afterwards, with nothing in between.  When
\* neither raised, it returns "closed successfully" exactly when 'Resolve.exe'
\* is not in the task list at that check, and "did not close" when it is.  It
\* never raises: an exception ends the call with "Failed to quit" and its
\* text, or with "not initialized"; and a call in progress can always take
\* its next step.
C11_QuitChecksOnce ==
    /\ [](\A c \in Callers :
            QuitConnected(c) =>
                /\ steps[c] \in {<<"Quit">>, <<"Quit", "tasklist">>}
                /\ pc[c] \in {"idle", "quit_tasklist"}
                /\ pc[c] = "quit_tasklist" =>
                      /\ steps[c] = <<"Quit">>
                      /\ result[c] = NoResult
                      /\ ENABLED QuitTasklist(c)
                /\ pc[c] = "idle" =>
                      \/ result[c] = "DaVinci Resolve has been closed successfully."
                      \/ result[c] = "DaVinci Resolve did not close. Please use the kill function to terminate it manually."
                      \/ result[c] = "Resolve application is not initialized. Cannot quit."
                      \/ \E e \in QuitErrors :
                            result[c] = "Failed to quit DaVinci Resolve: " \o e
                /\ frame[c].raised <=>
                      \/ result[c] = "Resolve application is not initialized. Cannot quit."
                      \/ \E e \in QuitErrors :
                            result[c] = "Failed to quit DaVinci Resolve: " \o e
                /\ (pc[c] = "idle" /\ ~frame[c].raised) =>
                      /\ steps[c] = <<"Quit", "tasklist">>
                      /\ (result[c] = "DaVinci Resolve has been closed successfully.")
                            <=> ~In(ResolveExe, frame[c].stdout))
    /\ [][\A c \in Callers :
            (Steps(c, "quit_tasklist") /\ ~frame'[c].raised) =>
                /\ pc'[c] = "idle"
                /\ frame'[c].stdout = TasklistStdout(procs)
                /\ (result'[c] = "DaVinci Resolve has been closed successfully.")
                      <=> ~Listed(procs)
                /\ Listed(procs) =>
                      result'[c] = "DaVinci Resolve did not close. Please use the kill function to terminate it manually."
                /\ procs' = procs]_vars

\* C11's case: quit on a connected instance returned "closed successfully"
\* after Quit() and one query, Resolve having exited.
C11_Witness ==
    \E c \in Callers :
        /\ QuitConnected(c)
        /\ pc[c] = "idle"
        /\ steps[c] = <<"Quit", "tasklist">>
        /\ result[c] = ClosedMsg
        /\ ~frame[c].stopped
        /\ ResolveExe \notin procs

\* C11's other case: Resolve still ran at the check and quit returned "did
\* not close".
C11_WitnessDidNotClose ==
    \E c \in Callers :
        /\ QuitConnected(c)
        /\ pc[c] = "idle"
        /\ result[c] = DidNotCloseMsg
        /\ ResolveExe \in procs

\* c's record is that of a call of kill.
IsKill(c) == frame[c].method = "kill"

\* c takes the step that is its call of kill: its record becomes one of kill
\* by more than a mark of disturbance.
KillStep(c) ==
    /\ frame'[c].method = "kill"
    /\ frame'[c] # frame[c]
    /\ frame'[c] # [frame[c] EXCEPT !.disturbed = TRUE]

\* C12: kill, on an instance connected or not, never raises and issues exactly
\* one command, the forced termination of 'Resolve.exe'.  When the command did
\* not raise, it returns "forcefully terminated" exactly when the command's
\* output contains 'SUCCESS', and "Failed to terminate" otherwise; when the
\* command raised it returns "Failed to kill" and the exception's text.  A
\* kill whose command ran while no 'Resolve.exe' process existed returns
\* "Failed to terminate" and leaves the processes, the files and the fields of
\* every instance as they were.
C12_KillOnce ==
    /\ [](\A c \in Callers :
            IsKill(c) =>
                /\ pc[c] = "idle"
                /\ steps[c] = <<"taskkill">>
                /\ frame[c].raised <=>
                      \E e \in OsErrors :
                          result[c] = "Failed to kill DaVinci Resolve: " \o e
                /\ ~frame[c].raised =>
                      IF In(<<"S","U","C","C","E","S","S">>, frame[c].stdout)
                      THEN result[c] = "DaVinci Resolve has been forcefully terminated."
                      ELSE result[c] = "Failed to terminate DaVinci Resolve. Process may not be running.")
    /\ [][\A c \in Callers :
            (KillStep(c) /\ ResolveExe \notin procs /\ ~frame'[c].raised) =>
                /\ result'[c] = "Failed to terminate DaVinci Resolve. Process may not be running."
                /\ procs' = procs
                /\ fs' = fs
                /\ inst' = inst]_vars

\* C12's case: kill on an instance that is not connected terminated Resolve.
C12_Witness ==
    \E c \in Callers :
        /\ IsKill(c)
        /\ frame[c].held = "None"
        /\ ~frame[c].stopped
        /\ result[c] = KilledMsg
        /\ ResolveExe \notin procs

\* C12's cases: kill on a connected instance terminated Resolve, and kill
\* while nothing listed as Resolve ran returned "Failed to terminate".
C12_WitnessConnected ==
    \E c \in Callers :
        /\ IsKill(c)
        /\ frame[c].held = AppHandle
        /\ result[c] = KilledMsg

C12_WitnessStopped ==
    \E c \in Callers :
        /\ IsKill(c)
        /\ frame[c].stopped
        /\ ~frame[c].disturbed
        /\ result[c] = FailedTerminateMsg
        /\ procs = {}

\* wcall records a call of the constructor.
Constructed == Called("Resolve", <<"__init__">>)

\* The value v is absent: None or another falsy value.
Absent(v) == v \in {"None", "False", "0", "''"}

\* C13: constructing a Resolve object never raises, and the three handles are
\* nested at all times: project_manager is set only if media_storage is, and
\* media_storage only if app is a truthy handle.  Right after a construction:
\* if scriptapp raised or returned a falsy value, app is None or that value,
\* both wrappers are None and no other vendor call was made; if
\* GetMediaStorage raised, app is set and both wrappers are None; if
\* GetProjectManager raised, app and media_storage are set and
\* project_manager alone is None; otherwise all three are set.
C13_NestedHandles ==
    /\ \A c \in Callers :
          /\ project_manager[c] # "None" => media_storage[c] # "None"
          /\ media_storage[c] # "None" => ~Absent(app[c])
    /\ Constructed =>
          LET c == wcall.self
              v == wcall.vendor
              failed(i) == v[i].out.kind = "raise"
          IN  /\ wcall.outcome = [kind |-> "return", value |-> "None"]
              /\ Len(v) >= 1
              /\ v[1].op = "scriptapp"
              /\ IF failed(1) \/ Absent(v[1].out.value)
                 THEN /\ Len(v) = 1
                      /\ app[c] = (IF failed(1) THEN "None" ELSE v[1].out.value)
                      /\ media_storage[c] = "None"
                      /\ project_manager[c] = "None"
                 ELSE /\ app[c] = v[1].out.value
                      /\ Len(v) >= 2
                      /\ v[2].op = "GetMediaStorage" /\ v[2].obj = app[c]
                      /\ IF failed(2)
                         THEN /\ Len(v) = 2
                              /\ media_storage[c] = "None"
                              /\ project_manager[c] = "None"
                         ELSE /\ media_storage[c] # "None"
                              /\ Len(v) = 3
                              /\ v[3].op = "GetProjectManager"
                              /\ v[3].obj = app[c]
                              /\ failed(3) <=> project_manager[c] = "None"

\* C13's case: GetProjectManager raised in a construction; app and
\* media_storage are set and project_manager is None.
C13_Witness ==
    /\ Constructed
    /\ Len(wcall.vendor) = 3
    /\ wcall.vendor[3].out.kind = "raise"
    /\ app[wcall.self] = AppHandle
    /\ media_storage[wcall.self] = MediaStorage(VendorMediaStorage)
    /\ project_manager[wcall.self] = PyNone

\* C13's other cases: scriptapp raised; scriptapp returned None while Resolve
\* ran; GetMediaStorage raised; nothing raised.
C13_WitnessScriptappRaised ==
    /\ Constructed
    /\ wcall.vendor[1].out.kind = "raise"
    /\ app[wcall.self] = PyNone

C13_WitnessUnreachable ==
    /\ Constructed
    /\ wcall.vendor[1].out = Returns(PyNone)
    /\ ResolveExe \in procs
    /\ media_storage[wcall.self] = PyNone

C13_WitnessNoMediaStorage ==
    /\ Constructed
    /\ Len(wcall.vendor) = 2
    /\ wcall.vendor[2].out.kind = "raise"
    /\ app[wcall.self] = AppHandle
    /\ media_storage[wcall.self] = PyNone

C13_WitnessConnected ==
    /\ Constructed
    /\ project_manager[wcall.self] = ProjectManager(VendorProjectManager)

\* The three fields of c's instance.
Fields(c) == <<app[c], media_storage[c], project_manager[c]>>

\* wcall records a call of one of the two getters.
GetterCalled ==
    \/ Called("Resolve", <<"get", "media", "storage">>)
    \/ Called("Resolve", <<"get", "project", "manager">>)

\* c takes the step that starts a call of quit: its record becomes one of
\* quit by more than a mark of disturbance or the outcome of its query.
QuitStep(c) ==
    /\ frame'[c].method = "quit"
    /\ pc[c] = "idle"
    /\ frame'[c] # frame[c]
    /\ frame'[c] # [frame[c] EXCEPT !.disturbed = TRUE]

\* C14: the fields app, media_storage and project_manager of an instance
\* change only in a step of its constructor: the steps of open, quit and kill
\* and the two getters leave them as they are.  So on an instance whose app is
\* None, whatever open has returned: the getters return None and call nothing,
\* and quit returns "not initialized" without calling the vendor or querying
\* the task list, and leaves the processes as they are.
C14_ConnectedOnlyAtConstruction ==
    /\ [][\A c \in Callers :
            Fields(c)' # Fields(c) =>
                /\ wcall' # wcall
                /\ wcall'.cls = "Resolve" /\ wcall'.method = <<"__init__">>
                /\ wcall'.self = c
                /\ life' = life]_vars
    /\ [][(life' # life \/ (wcall' # wcall /\ wcall'.method # <<"__init__">>))
            => inst' = inst]_vars
    /\ [](GetterCalled =>
            /\ wcall.vendor = <<>>
            /\ wcall.outcome.kind = "return"
            /\ wcall.held = "None" => wcall.outcome.value = "None")
    /\ [](\A c \in Callers :
            (frame[c].method = "quit" /\ frame[c].held = "None") =>
                /\ pc[c] = "idle"
                /\ steps[c] = <<>>
                /\ result[c] = "Resolve application is not initialized. Cannot quit.")
    /\ [][\A c \in Callers :
            (QuitStep(c) /\ app[c] = "None") =>
                /\ procs' = procs
                /\ result'[c] = "Resolve application is not initialized. Cannot quit."]_vars

\* C14's case: on an instance whose app is None, open has returned "opened
\* successfully", Resolve runs, and get_media_storage() has returned None.
C14_Witness ==
    \E c \in Callers :
        /\ app[c] = PyNone
        /\ OpenReturned(c)
        /\ frame[c].held = PyNone
        /\ result[c] = OpenedMsg
        /\ ResolveExe \in procs
        /\ Called("Resolve", <<"get", "media", "storage">>)
        /\ wcall.self = c
        /\ wcall.outcome = Returns(PyNone)

\* C14's other cases: get_project_manager() has returned None after such an
\* open; quit on an instance whose app is None has returned "not initialized"
\* and Resolve still runs.
C14_WitnessProjectManager ==
    \E c \in Callers :
        /\ app[c] = PyNone
        /\ OpenReturned(c)
        /\ result[c] = OpenedMsg
        /\ Called("Resolve", <<"get", "project", "manager">>)
        /\ wcall.self = c
        /\ wcall.outcome = Returns(PyNone)

C14_WitnessQuit ==
    \E c \in Callers :
        /\ frame[c].method = "quit"
        /\ frame[c].held = PyNone
        /\ ~frame[c].disturbed
        /\ result[c] = NotInitializedMsg
        /\ ResolveExe \in procs

(***************************************************************************)
(* Properties of calls of open made at the same time                        *)
(***************************************************************************)

\* c's call of open has started the executable: its Popen did not raise.
Launched(c) ==
    /\ IsOpen(c)
    /\ Count("Popen", steps[c]) = 1
    /\ ~(frame[c].raised /\ steps[c][Len(steps[c])] = "Popen")

\* c's call of open starts the executable in this step.
LaunchStep(c) == Steps(c, "open_launch") /\ pc'[c] = "open_sleep"
                    /\ steps'[c] # steps[c]

\* C15: when calls of open interleave, Resolve being stopped at first and the
\* executable existing, no call starts the executable while 'Resolve.exe'
\* runs, and no two calls on record have both started it.
C15_LaunchAtMostOnce ==
    /\ [][\A c \in Callers : LaunchStep(c) => ResolveExe \notin procs]_vars
    /\ [](\A c, d \in Callers :
            (c # d /\ Launched(c)) => ~Launched(d))

====
